---- MODULE Spec2Model ----
(***************************************************************************)
(* A model of the three notebook drafts of the trading-signal pipeline:    *)
(*   draft 1  src/yfinance[apple_data].ipynb (the same code is cell 1 of   *)
(*            src/unnamed/part_000): extract_data, calculate_SMA,          *)
(*            create_features, trading_decision, logistic_regression,      *)
(*            evaluate and the module-level script;                        *)
(*   draft 2  src/unnamed/part_000 lines 147-248;                          *)
(*   draft 3  src/unnamed/part_000 lines 258-372 (the one with main()).    *)
(* A definition without a suffix is draft 3's; _1 and _2 are the earlier   *)
(* drafts' versions where they differ.                                     *)
(*                                                                         *)
(* Numbers.  pandas computes in floating point; the model computes in      *)
(* fixed point: a number x is the integer x * Scale, and every division    *)
(* truncates.  A missing value (NaN) is a value of its own.                *)
(*                                                                         *)
(* Tables.  A Series is [index, values]: a sequence of row labels and a    *)
(* sequence of values of the same length.  A DataFrame is [index, cols]    *)
(* with cols a function from column names to value sequences.  A label is  *)
(* <<"int", k>> (a RangeIndex row) or <<"date", d>> (a DatetimeIndex row,  *)
(* what yf.download returns).  TLA+ sequences start at 1: row i of the     *)
(* source is position i + 1.                                               *)
(***************************************************************************)
EXTENDS Integers, Sequences, FiniteSets, TLC

VARIABLES
  draft,     \* which draft's definitions the caller runs: 1, 2 or 3
  pc,        \* where the caller is
  data,      \* the price object the caller holds (Series; DataFrame in draft 1)
  passed,    \* the price object as it was when the caller passed it to a function
  window,    \* the window argument of an indicator call
  out,       \* what the last indicator call returned
  features,  \* the feature table
  target,    \* the label sequence
  exc,       \* "none", or the call that raised
  other,     \* a second price series, agreeing with data on its first rows
  features2, \* create_features(other)
  target2,   \* define_target(other, features2)
  split,     \* train_test_split's partition of the row positions
  clf,       \* the fitted classifier: its classes_, in sorted order
  y_pred,    \* the predictions for the test rows
  auc,       \* the arguments roc_auc_score was called with, and its outcome
  printed    \* the metric lines printed so far

vars == <<draft, pc, data, passed, window, out, features, target, exc, other,
          features2, target2, split, clf, y_pred, auc, printed>>

----------------------------------------------------------------------------
\* Bounds of the model.

\* Fixed-point resolution: the number 1.0 is the integer Scale.
Scale == 100
\* Longest price series of the indicator calls (every series over PriceLevels).
MaxRows == 5
\* Largest window argument of the indicator calls.
MaxWindow == 4

\* The prices of the short series, in fixed point (1.00, 2.00, 3.00).
PriceLevels == {1 * Scale, 2 * Scale, 3 * Scale}

----------------------------------------------------------------------------
\* Values.

Num(x) == [k |-> "num", v |-> x]
NaN == [k |-> "nan", v |-> 0]
IsNum(a) == a.k = "num"

\* float subtraction: NaN if either side is NaN
SubVal(a, b) == IF IsNum(a) /\ IsNum(b) THEN Num(a.v - b.v) ELSE NaN
\* float addition
AddVal(a, b) == IF IsNum(a) /\ IsNum(b) THEN Num(a.v + b.v) ELSE NaN
\* float division.  0/0 is NaN; x/0 for x # 0 would be inf, which the one
\* division of the source (RS, a mean of gains over a mean of strictly
\* positive losses) cannot produce.
DivVal(a, b) ==
  IF IsNum(a) /\ IsNum(b) /\ b.v # 0 THEN Num((a.v * Scale) \div b.v) ELSE NaN
\* a > b on floats: False when either side is NaN
GtVal(a, b) == IsNum(a) /\ IsNum(b) /\ a.v > b.v
\* a < b on floats: False when either side is NaN
LtVal(a, b) == IsNum(a) /\ IsNum(b) /\ a.v < b.v

\* floor of the square root, by Newton's iteration
RECURSIVE SqrtIter(_, _)
SqrtIter(x, r) ==
  LET r2 == (r + x \div r) \div 2
  IN IF r2 >= r THEN r ELSE SqrtIter(x, r2)

ISqrt(x) == IF x <= 0 THEN 0 ELSE SqrtIter(x, x)

RECURSIVE SumSeq(_, _, _)
\* the sum of vals[lo..hi], every one of them a number
SumSeq(vals, lo, hi) ==
  IF lo > hi THEN 0 ELSE vals[hi].v + SumSeq(vals, lo, hi - 1)

RECURSIVE SumSqDev(_, _, _, _)
\* the sum of (vals[j] - m)^2 over lo..hi
SumSqDev(vals, lo, hi, m) ==
  IF lo > hi THEN 0
  ELSE (vals[hi].v - m) * (vals[hi].v - m) + SumSqDev(vals, lo, hi - 1, m)

----------------------------------------------------------------------------
\* Indexes.

RangeIndex(n) == [i \in 1..n |-> <<"int", i - 1>>]
\* trading days: five in a row, then a two-day gap
DatetimeIndex(n) == [i \in 1..n |-> <<"date", (i - 1) + 2 * ((i - 1) \div 5)>>]
MakeIndex(kind, n) == IF kind = "int" THEN RangeIndex(n) ELSE DatetimeIndex(n)

Labels(idx) == {idx[i] : i \in 1..Len(idx)}
\* the position of a label in an index (0 when it is not there)
PosOf(idx, lab) ==
  IF lab \in Labels(idx) THEN CHOOSE i \in 1..Len(idx) : idx[i] = lab ELSE 0

RECURSIVE MergeIndex(_, _, _, _)
\* the sorted union of two increasing indexes, from positions a and b on
MergeIndex(i1, i2, a, b) ==
  IF a > Len(i1) THEN SubSeq(i2, b, Len(i2))
  ELSE IF b > Len(i2) THEN SubSeq(i1, a, Len(i1))
  ELSE IF i1[a] = i2[b] THEN <<i1[a]>> \o MergeIndex(i1, i2, a + 1, b + 1)
  ELSE IF i1[a][2] < i2[b][2] THEN <<i1[a]>> \o MergeIndex(i1, i2, a + 1, b)
  ELSE <<i2[b]>> \o MergeIndex(i1, i2, a, b + 1)

\* Index.union as the binary operators use it: the index itself when both
\* sides have the same one, else the sorted union of the labels (every index
\* here is increasing, so the union is a merge)
UnionIndex(i1, i2) == IF i1 = i2 THEN i1 ELSE MergeIndex(i1, i2, 1, 1)

\* a Series holds its labels and its values as arrays (sequences)
MkSeries(idx, vals) == [index |-> idx \o <<>>, values |-> vals \o <<>>]
\* the value of a series at a label (NaN when the label is missing): reindexing
At(s, lab) ==
  LET p == PosOf(s.index, lab) IN IF p = 0 THEN NaN ELSE s.values[p]
\* Series.reindex(idx): what assigning a series to a frame column does
Reindex(s, idx) ==
  IF s.index = idx THEN s.values ELSE [i \in 1..Len(idx) |-> At(s, idx[i])]

RECURSIVE SelectPos(_, _)
\* the positions 1..n that are in the set P, in order
SelectPos(n, P) ==
  IF n = 0 THEN <<>>
  ELSE IF n \in P THEN Append(SelectPos(n - 1, P), n) ELSE SelectPos(n - 1, P)

\* boolean-mask selection s[mask]: the rows at the positions P, in order
Take(s, P) ==
  LET ps == SelectPos(Len(s.values), P)
  IN MkSeries([i \in 1..Len(ps) |-> s.index[ps[i]]],
              [i \in 1..Len(ps) |-> s.values[ps[i]]])

----------------------------------------------------------------------------
\* The pandas operations the indicators are built from.

\* Series.diff(): the change from the previous row; NaN in the first row
Diff(s) ==
  MkSeries(s.index,
           [i \in 1..Len(s.values) |->
              IF i = 1 THEN NaN ELSE SubVal(s.values[i], s.values[i - 1])])

\* Series.abs()
AbsSeries(s) ==
  MkSeries(s.index,
           [i \in 1..Len(s.values) |->
              IF IsNum(s.values[i]) /\ s.values[i].v < 0
              THEN Num(0 - s.values[i].v) ELSE s.values[i]])

\* the rows of the trailing window that ends at position i
WindowRows(i, w) == (IF i - w + 1 > 1 THEN i - w + 1 ELSE 1)..i

\* Series.rolling(window=w).mean(): min_periods defaults to the window, so a
\* row has a value once w observations lie in its trailing window
RollingMean(s, w) ==
  MkSeries(s.index,
           [i \in 1..Len(s.values) |->
              LET rows == WindowRows(i, w)
                  nobs == Cardinality({j \in rows : IsNum(s.values[j])})
              IN IF nobs >= w
                 THEN Num(SumSeq(s.values, i - w + 1, i) \div nobs)
                 ELSE NaN])

\* Series.rolling(window=w).std(): the sample standard deviation (ddof = 1)
RollingStd(s, w) ==
  MkSeries(s.index,
           [i \in 1..Len(s.values) |->
              LET rows == WindowRows(i, w)
                  nobs == Cardinality({j \in rows : IsNum(s.values[j])})
              IN IF nobs >= w /\ nobs > 1
                 THEN LET m == SumSeq(s.values, i - w + 1, i) \div nobs
                      IN Num(ISqrt(SumSqDev(s.values, i - w + 1, i, m)
                                   \div (nobs - 1)))
                 ELSE NaN])

\* The state of pandas' ewm loop (adjust=True, ignore_na=False): the
\* weighted average, the weight of the past, the observations seen.
EwmFirst(x) ==
  [avg |-> x, wt |-> Scale, nobs |-> IF IsNum(x) THEN 1 ELSE 0]

\* one row of the loop, for alpha = an / ad
EwmStep(st, cur, an, ad) ==
  LET obs == IsNum(cur)
      n2 == st.nobs + (IF obs THEN 1 ELSE 0)
  IN IF IsNum(st.avg)
     THEN LET wt1 == (st.wt * (ad - an)) \div ad
          IN IF obs
             THEN [avg |-> IF st.avg.v # cur.v
                           THEN Num((wt1 * st.avg.v + Scale * cur.v)
                                    \div (wt1 + Scale))
                           ELSE st.avg,
                   wt |-> wt1 + Scale,
                   nobs |-> n2]
             ELSE [avg |-> st.avg, wt |-> wt1, nobs |-> n2]
     ELSE [avg |-> IF obs THEN cur ELSE st.avg, wt |-> st.wt, nobs |-> n2]

RECURSIVE EwmRun(_, _, _, _, _, _, _)
EwmRun(vals, an, ad, minp, i, st, acc) ==
  IF i > Len(vals) THEN acc
  ELSE LET st2 == IF i = 1 THEN EwmFirst(vals[1])
                  ELSE EwmStep(st, vals[i], an, ad)
       IN EwmRun(vals, an, ad, minp, i + 1, st2,
                 Append(acc, IF st2.nobs >= minp THEN st2.avg ELSE NaN))

\* Series.ewm(alpha=an/ad, min_periods=minp).mean()
EwmMean(s, an, ad, minp) ==
  MkSeries(s.index,
           EwmRun(s.values, an, ad, IF minp > 1 THEN minp ELSE 1, 1,
                  EwmFirst(NaN), <<>>))

\* s1 - s2: the operands are aligned on the union of their indexes (no
\* alignment is needed when both have the same index)
SubSeries(s1, s2) ==
  IF s1.index = s2.index
  THEN MkSeries(s1.index, [i \in 1..Len(s1.values) |->
                             SubVal(s1.values[i], s2.values[i])])
  ELSE LET idx == UnionIndex(s1.index, s2.index)
       IN MkSeries(idx, [i \in 1..Len(idx) |->
                           SubVal(At(s1, idx[i]), At(s2, idx[i]))])

\* s1 / s2, aligned the same way: a label only one side has gives NaN
DivSeries(s1, s2) ==
  IF s1.index = s2.index
  THEN MkSeries(s1.index, [i \in 1..Len(s1.values) |->
                             DivVal(s1.values[i], s2.values[i])])
  ELSE LET idx == UnionIndex(s1.index, s2.index)
       IN MkSeries(idx, [i \in 1..Len(idx) |->
                           DivVal(At(s1, idx[i]), At(s2, idx[i]))])

\* s1 + c * s2 for an integer c, on series of one index (rolling_mean and std)
AddScaled(s1, c, s2) ==
  MkSeries(s1.index,
           [i \in 1..Len(s1.values) |->
              IF IsNum(s1.values[i]) /\ IsNum(s2.values[i])
              THEN Num(s1.values[i].v + c * s2.values[i].v) ELSE NaN])

----------------------------------------------------------------------------
\* The indicator functions.

\* the windows create_features passes, and the defaults of the signatures
SMA_WINDOW == 20
EMA_WINDOW == 12
RSI_WINDOW == 14
MACD_SLOW == 26
MACD_FAST == 12
MACD_SIGNAL == 9
BB_WINDOW == 20

\* a variant of calculate_SMA whose window is one row too long
calculate_SMA_long(d, w) == RollingMean(d, w + 1)

\* a variant of calculate_SMA that reads one row ahead: row i gets the
\* trailing mean of row i + 1
calculate_SMA_ahead(d, w) ==
  LET m == RollingMean(d, w)
  IN MkSeries(d.index, [i \in 1..Len(m.values) |->
                          IF i < Len(m.values) THEN m.values[i + 1] ELSE NaN])

calculate_SMA(d, w) == RollingMean(d, w)

\* draft 1 takes the whole frame and reads its Close column
calculate_SMA_1(d, w) == RollingMean(MkSeries(d.index, d.cols["Close"]), w)

calculate_EMA(d, w) == EwmMean(d, 2, w + 1, w)

calculate_MACD(d, slow, fast, sig) ==
  LET fast_ema == calculate_EMA(d, fast)
      slow_ema == calculate_EMA(d, slow)
      macd == SubSeries(fast_ema, slow_ema)
      signal_line == calculate_EMA(macd, sig)
  IN <<macd, signal_line>>

\* draft 2 smooths with alpha = 1/window
calculate_MACD_2(d, slow, fast, sig) ==
  LET fast_ema == EwmMean(d, 1, fast, fast)
      slow_ema == EwmMean(d, 1, slow, slow)
      macd == SubSeries(fast_ema, slow_ema)
      signal_line == EwmMean(macd, 1, sig, sig)
  IN <<macd, signal_line>>

\* 100 - 100 / (1 + RS) on one value (RS >= 0, so 1 + RS is never 0)
RsiOf(rs) ==
  IF IsNum(rs) /\ Scale + rs.v # 0
  THEN Num(100 * Scale - (100 * Scale * Scale) \div (Scale + rs.v))
  ELSE NaN

\* a variant of calculate_RSI that keeps every date in the gain and the loss
\* series, with 0 where the change has the other sign
calculate_RSI_kept(d, w) ==
  LET delta == Diff(d)
      n == Len(delta.values)
      up == MkSeries(delta.index,
                     [i \in 1..n |-> IF ~IsNum(delta.values[i]) THEN NaN
                                     ELSE IF delta.values[i].v > 0 THEN delta.values[i]
                                     ELSE Num(0)])
      down == MkSeries(delta.index,
                       [i \in 1..n |-> IF ~IsNum(delta.values[i]) THEN NaN
                                       ELSE IF delta.values[i].v < 0
                                       THEN Num(0 - delta.values[i].v)
                                       ELSE Num(0)])
      RS == DivSeries(EwmMean(up, 1, w, w), EwmMean(down, 1, w, w))
  IN MkSeries(RS.index, [i \in 1..Len(RS.values) |-> RsiOf(RS.values[i])])

\* the same in drafts 2 and 3
calculate_RSI(d, w) ==
  LET delta == Diff(d)
      n == Len(delta.values)
      up == Take(delta, {i \in 1..n : GtVal(delta.values[i], Num(0))})
      down == AbsSeries(Take(delta, {i \in 1..n : LtVal(delta.values[i], Num(0))}))
      RS == DivSeries(EwmMean(up, 1, w, w), EwmMean(down, 1, w, w))
  IN MkSeries(RS.index, [i \in 1..Len(RS.values) |-> RsiOf(RS.values[i])])

\* the same in drafts 2 and 3
calculate_bollinger_bands(d, w) ==
  LET rolling_mean == RollingMean(d, w)
      std == RollingStd(d, w)
      upper_band == AddScaled(rolling_mean, 2, std)
      lower_band == AddScaled(rolling_mean, 0 - 2, std)
  IN <<upper_band, lower_band>>

----------------------------------------------------------------------------
\* Calls of the indicator functions on short price series.

\* every price series of at most MaxRows rows over PriceLevels
ShortPrices == UNION {[1..n -> PriceLevels] : n \in 0..MaxRows}

\* a price Series
PriceSeries(kind, prices) ==
  MkSeries(MakeIndex(kind, Len(prices)), [i \in 1..Len(prices) |-> Num(prices[i])])

\* draft 1's price DataFrame (of the OHLC columns only Close is ever read)
PriceFrame(kind, prices) ==
  [index |-> MakeIndex(kind, Len(prices)),
   cols |-> [c \in {"Close"} |-> [i \in 1..Len(prices) |-> Num(prices[i])]]]

PriceObject(d, kind, prices) ==
  IF d = 1 THEN PriceFrame(kind, prices) ELSE PriceSeries(kind, prices)

Unused == <<>>

InitInd ==
  /\ draft \in {1, 2, 3}
  /\ pc = "call"
  /\ \E kind \in {"int", "date"}, prices \in ShortPrices :
       data = PriceObject(draft, kind, prices)
  /\ passed = data
  /\ window \in 1..MaxWindow
  /\ out = <<>>
  /\ features = Unused /\ target = Unused /\ exc = "none"
  /\ other = Unused /\ features2 = Unused /\ target2 = Unused
  /\ split = Unused /\ clf = Unused /\ y_pred = Unused
  /\ auc = Unused /\ printed = <<>>

IndFrame ==
  UNCHANGED <<draft, data, passed, window, features, target, exc, other,
              features2, target2, split, clf, y_pred, auc, printed>>

CallSMA ==
  /\ pc = "call"
  /\ out' = <<IF draft = 1 THEN calculate_SMA_1(data, window)
              ELSE calculate_SMA(data, window)>>
  /\ pc' = "SMA"
  /\ IndFrame

CallEMA ==
  /\ pc = "call" /\ draft = 3
  /\ out' = <<calculate_EMA(data, window)>>
  /\ pc' = "EMA"
  /\ IndFrame

CallRSI ==
  /\ pc = "call" /\ draft \in {2, 3}
  /\ out' = <<calculate_RSI(data, window)>>
  /\ pc' = "RSI"
  /\ IndFrame

\* the fast window is the call's window; the other two are drawn beside it
CallMACD ==
  /\ pc = "call" /\ draft \in {2, 3}
  /\ \E slow \in {window, window + 1}, sig \in {1, 2} :
       out' = IF draft = 2 THEN calculate_MACD_2(data, slow, window, sig)
              ELSE calculate_MACD(data, slow, window, sig)
  /\ pc' = "MACD"
  /\ IndFrame

CallBB ==
  /\ pc = "call" /\ draft \in {2, 3}
  /\ out' = calculate_bollinger_bands(data, window)
  /\ pc' = "BB"
  /\ IndFrame

NextInd == CallSMA \/ CallEMA \/ CallRSI \/ CallMACD \/ CallBB

SpecInd == InitInd /\ [][NextInd]_vars

\* the price column the indicator call read
PriceColumn == IF draft = 1 THEN data.cols["Close"] ELSE data.values

SameShape(s) == s.index = data.index /\ Len(s.values) = Len(data.index)

LeadingNaNOnly(s) ==
  \A i, j \in 1..Len(s.values) : i < j /\ IsNum(s.values[i]) => IsNum(s.values[j])

\* C2: every indicator call returns series of the input's length and index
\* whose undefined entries are a leading run only.
C2_IndicatorShape ==
  pc \in {"SMA", "EMA", "RSI", "MACD", "BB"} =>
    \A k \in 1..Len(out) : SameShape(out[k]) /\ LeadingNaNOnly(out[k])

\* C4: calculate_SMA's value at row i is the mean of the w inputs at rows
\* i-w+1..i when i >= w-1 (in fixed point: the mean truncated to the
\* resolution), and it is undefined at every row i < w-1.
C4_SMAIsTrailingMean ==
  pc = "SMA" =>
    /\ Len(out[1].values) = Len(PriceColumn)
    /\ \A p \in 1..Len(PriceColumn) :
         LET v == out[1].values[p]
             total == SumSeq(PriceColumn, p - window + 1, p)
         IN IF p >= window
            THEN /\ IsNum(v)
                 /\ window * v.v <= total
                 /\ total < window * (v.v + 1)
            ELSE v = NaN

\* a window of 2 over 1.00, 2.00, 3.00: undefined, 1.50, 2.50
C4_Witness ==
  /\ pc = "SMA" /\ window = 2
  /\ Len(PriceColumn) = 3
  /\ PriceColumn = <<Num(1 * Scale), Num(2 * Scale), Num(3 * Scale)>>
  /\ out[1].values[1] = NaN
  /\ out[1].values[2] = Num((3 * Scale) \div 2)
  /\ out[1].values[3] = Num((5 * Scale) \div 2)

----------------------------------------------------------------------------
\* Feature assembly.

\* pd.DataFrame(): no rows, no columns
EmptyFrame == [index |-> <<>>, cols |-> <<>>]

\* frame[name] = series.  A frame without rows takes the index of the first
\* non-empty series assigned to it (the columns it has are filled with NaN);
\* after that a series is reindexed to the frame's index.
SetColumn(f, name, s) ==
  LET idx == IF Len(f.index) = 0 /\ Len(s.values) > 0 THEN s.index ELSE f.index
  IN [index |-> idx,
      cols |-> [c \in (DOMAIN f.cols) \cup {name} |->
                  IF c = name THEN Reindex(s, idx) \o <<>>
                  ELSE IF idx = f.index THEN f.cols[c]
                  ELSE [i \in 1..Len(idx) |-> NaN]] @@ <<>>]

\* frame[name] = array: the values as they are, row by row
SetArray(f, name, vals) ==
  [index |-> f.index,
   cols |-> [c \in (DOMAIN f.cols) \cup {name} |->
               IF c = name THEN vals \o <<>> ELSE f.cols[c]] @@ <<>>]

\* frame[name]
Column(f, name) == MkSeries(f.index, f.cols[name])

\* s1 > s2 on two columns of one frame: a boolean per row
GtSeries(s1, s2) ==
  MkSeries(s1.index,
           [i \in 1..Len(s1.values) |-> GtVal(s1.values[i], s2.values[i])])

\* draft 1: adds the column to the frame it was given and returns that frame
create_features_1(d) == SetColumn(d, "SMA_20", calculate_SMA_1(d, SMA_WINDOW))

create_features_2(d) ==
  LET macd == calculate_MACD_2(d, MACD_SLOW, MACD_FAST, MACD_SIGNAL)
      bb == calculate_bollinger_bands(d, BB_WINDOW)
      f1 == SetColumn(EmptyFrame, "SMA_20", calculate_SMA(d, SMA_WINDOW))
      f2 == SetColumn(f1, "RSI_14", calculate_RSI(d, RSI_WINDOW))
      f3 == SetColumn(f2, "MACD", macd[1])
      f4 == SetColumn(f3, "MACD_signal", macd[2])
      f5 == SetColumn(f4, "BB_upper", bb[1])
      f6 == SetColumn(f5, "BB_lower", bb[2])
      f7 == SetColumn(f6, "RSI_momentum", Diff(Column(f6, "RSI_14")))
  IN SetColumn(f7, "BB_width",
               SubSeries(Column(f7, "BB_upper"), Column(f7, "BB_lower")))

create_features(d) ==
  LET macd == calculate_MACD(d, MACD_SLOW, MACD_FAST, MACD_SIGNAL)
      bb == calculate_bollinger_bands(d, BB_WINDOW)
      f1 == SetColumn(EmptyFrame, "SMA_20", calculate_SMA(d, SMA_WINDOW))
      f2 == SetColumn(f1, "EMA_12", calculate_EMA(d, EMA_WINDOW))
      f3 == SetColumn(f2, "MACD", macd[1])
      f4 == SetColumn(f3, "MACD_signal", macd[2])
      f5 == SetColumn(f4, "RSI_14", calculate_RSI(d, RSI_WINDOW))
      f6 == SetColumn(f5, "BB_upper", bb[1])
      f7 == SetColumn(f6, "BB_lower", bb[2])
      f8 == SetColumn(f7, "EMA_crossover",
                      GtSeries(Column(f7, "EMA_12"), Column(f7, "SMA_20")))
      f9 == SetColumn(f8, "RSI_momentum", Diff(Column(f8, "RSI_14")))
  IN SetColumn(f9, "BB_width",
               SubSeries(Column(f9, "BB_upper"), Column(f9, "BB_lower")))

----------------------------------------------------------------------------
\* Labelling.  A call ends as [exc, ret]: exc is "none" or the call that
\* raised, ret is what was returned.

Returned(s) == [ret |-> "Series", index |-> s.index, values |-> s.values]
ReturnedNone == [ret |-> "None", index |-> <<>>, values |-> <<>>]
NoReturn == [ret |-> "nothing", index |-> <<>>, values |-> <<>>]

\* features.loc[i, col] finds its row by the label i, not by position
HasRow(f, i) == <<"int", i>> \in Labels(f.index)
Loc(f, i, col) == f.cols[col][PosOf(f.index, <<"int", i>>)]

\* a variant of draft 3's rule whose thresholds are inclusive
Rule_inclusive(crossover, rsi) ==
  IF crossover /\ IsNum(rsi) /\ rsi.v <= 30 * Scale THEN "Buy"
  ELSE IF ~crossover /\ IsNum(rsi) /\ rsi.v >= 70 * Scale THEN "Sell"
  ELSE "Hold"

\* draft 3's rule for one row
Rule(crossover, rsi) ==
  IF crossover /\ LtVal(rsi, Num(30 * Scale)) THEN "Buy"
  ELSE IF ~crossover /\ GtVal(rsi, Num(70 * Scale)) THEN "Sell"
  ELSE "Hold"

\* draft 2's rule for one row
Rule_2(price, rsi, sma) ==
  IF LtVal(rsi, Num(30 * Scale)) /\ GtVal(price, sma) THEN "Buy"
  ELSE IF GtVal(rsi, Num(70 * Scale)) /\ LtVal(price, sma) THEN "Sell"
  ELSE "Hold"

\* pd.Series(targets, index=data.index): the lengths must agree
NewSeries(targets, idx) ==
  IF Len(targets) = Len(idx)
  THEN [exc |-> "none", ret |-> Returned(MkSeries(idx, targets))]
  ELSE [exc |-> "pd.Series", ret |-> NoReturn]

RECURSIVE TargetLoop(_, _, _, _)
\* draft 3's loop from row i on, with the labels appended so far
TargetLoop(d, f, i, targets) ==
  IF i >= Len(d.values) THEN NewSeries(targets, d.index)
  ELSE IF ~HasRow(f, i) THEN [exc |-> "features.loc", ret |-> NoReturn]
  ELSE TargetLoop(d, f, i + 1,
                  Append(targets, Rule(Loc(f, i, "EMA_crossover"), Loc(f, i, "RSI_14"))))

define_target(d, f) == TargetLoop(d, f, 0, <<>>)

\* draft 2: the return statement is inside the loop body, so the function
\* returns at the end of the first iteration, and returns None when the loop
\* body never runs
define_target_2(d, f) ==
  IF Len(d.values) = 0 THEN [exc |-> "none", ret |-> ReturnedNone]
  ELSE IF ~HasRow(f, 0) THEN [exc |-> "features.loc", ret |-> NoReturn]
  ELSE NewSeries(<<Rule_2(d.values[1], Loc(f, 0, "RSI_14"), Loc(f, 0, "SMA_20"))>>,
                 d.index)

\* draft 1: np.where(data['Close'] > data['SMA_20'], 'Buy', 'Sell')
Signal(d) ==
  [i \in 1..Len(d.index) |->
     IF GtVal(d.cols["Close"][i], d.cols["SMA_20"][i]) THEN "Buy" ELSE "Sell"]

\* draft 1: stores the Signal column in the frame it was given, returns it
trading_decision(d) == SetArray(d, "Signal", Signal(d))

----------------------------------------------------------------------------
\* Feature assembly and labelling on price series long enough for every
\* indicator of create_features to leave its warm-up.

\* Longest price series of the feature calls.
MaxLen == 36

\* Day-to-day price changes, repeated over the rows of a series.
Patterns == {<<1>>, <<0 - 1>>, <<0>>, <<1, 0 - 1>>, <<1, 1, 0 - 2>>, <<2, 0 - 1, 0>>}

RECURSIVE SumFirst(_, _)
\* the sum of the first k entries of a pattern
SumFirst(pat, k) == IF k = 0 THEN 0 ELSE pat[k] + SumFirst(pat, k - 1)

\* the sum of the first r changes of a pattern repeated
CumDelta(pat, r) ==
  (r \div Len(pat)) * SumFirst(pat, Len(pat)) + SumFirst(pat, r % Len(pat))

\* n prices that start at 50.00 and follow the pattern
GenPrices(pat, n) == [i \in 1..n |-> 50 * Scale + Scale * CumDelta(pat, i - 1)]

InitFeat ==
  /\ draft \in {1, 2, 3}
  /\ pc = "start"
  /\ \E kind \in {"int", "date"}, pat \in Patterns, n \in 0..MaxLen :
       data = PriceObject(draft, kind, GenPrices(pat, n))
  /\ passed = data
  /\ window = 0 /\ out = <<>>
  /\ features = Unused /\ target = NoReturn /\ exc = "none"
  /\ other = Unused /\ features2 = Unused /\ target2 = Unused
  /\ split = Unused /\ clf = Unused /\ y_pred = Unused
  /\ auc = Unused /\ printed = <<>>

FeatFrame ==
  UNCHANGED <<draft, window, out, other, features2, target2, split, clf,
              y_pred, auc, printed>>

\* features = create_features(data).  In draft 1 the frame returned is the
\* frame passed: data and features are one object.
CreateFeatures ==
  /\ pc = "start"
  /\ passed' = data
  /\ features' = CASE draft = 1 -> create_features_1(data)
                   [] draft = 2 -> create_features_2(data)
                   [] OTHER -> create_features(data)
  /\ data' = IF draft = 1 THEN features' ELSE data
  /\ pc' = "featured"
  /\ UNCHANGED <<target, exc>>
  /\ FeatFrame

\* target = define_target(data, features), drafts 2 and 3
DefineTarget ==
  /\ pc = "featured" /\ draft \in {2, 3}
  /\ LET r == IF draft = 2 THEN define_target_2(data, features)
              ELSE define_target(data, features)
     IN target' = r.ret /\ exc' = r.exc
  /\ passed' = data
  /\ pc' = "labelled"
  /\ UNCHANGED <<data, features>>
  /\ FeatFrame

\* y = trading_decision(features), draft 1
TradingDecision ==
  /\ pc = "featured" /\ draft = 1
  /\ passed' = features
  /\ features' = trading_decision(features)
  /\ data' = features'
  /\ target' = Returned(Column(features', "Signal"))
  /\ pc' = "labelled"
  /\ UNCHANGED exc
  /\ FeatFrame

NextFeat == CreateFeatures \/ DefineTarget \/ TradingDecision

SpecFeat == InitFeat /\ [][NextFeat]_vars

\* the number of rows of the price object
NRows == Len(data.index)

\* C1: a labelling call on n rows returns n labels, one per row, in row order.
C1_EveryRowLabelled ==
  pc = "labelled" =>
    /\ exc = "none"
    /\ target.ret = "Series"
    /\ Len(target.values) = NRows
    /\ target.index = data.index

\* C6: after a call returns, the price object passed to it is what it was
\* when it was passed.
C6_InputNotMutated ==
  pc \in {"featured", "labelled"} => data = passed

----------------------------------------------------------------------------
\* Two runs of draft 3 on price series that share their first rows.

\* the first k prices, then (with a pattern for the tail) prices that follow
\* the tail's pattern up to n rows
WithTail(prices, k, tail, n) ==
  IF tail = <<>> THEN SubSeq(prices, 1, k)
  ELSE [i \in 1..n |->
          IF i <= k THEN prices[i]
          ELSE (IF k = 0 THEN 50 * Scale ELSE prices[k])
               + Scale * CumDelta(tail, i - k)]

InitCausal ==
  /\ draft = 3
  /\ pc = "start"
  /\ \E kind \in {"int", "date"}, pat \in Patterns, k \in 0..MaxLen,
        tail \in Patterns \cup {<<>>} :
       /\ tail # pat
       /\ data = PriceSeries(kind, GenPrices(pat, MaxLen))
       /\ other = PriceSeries(kind, WithTail(GenPrices(pat, MaxLen), k, tail, MaxLen))
  /\ passed = data
  /\ window = 0 /\ out = <<>>
  /\ features = Unused /\ target = NoReturn /\ exc = "none"
  /\ features2 = Unused /\ target2 = NoReturn
  /\ split = Unused /\ clf = Unused /\ y_pred = Unused
  /\ auc = Unused /\ printed = <<>>

\* the second run: features2 = create_features(other)
CreateFeaturesOther ==
  /\ pc = "labelled"
  /\ features2' = create_features(other)
  /\ pc' = "featured2"
  /\ UNCHANGED <<draft, data, passed, window, out, features, target, exc,
                 other, target2, split, clf, y_pred, auc, printed>>

\* the second run: target2 = define_target(other, features2)
DefineTargetOther ==
  /\ pc = "featured2"
  /\ target2' = define_target(other, features2).ret
  /\ pc' = "labelled2"
  /\ UNCHANGED <<draft, data, passed, window, out, features, target, exc,
                 other, features2, split, clf, y_pred, auc, printed>>

NextCausal ==
  CreateFeatures \/ DefineTarget \/ CreateFeaturesOther \/ DefineTargetOther

SpecCausal == InitCausal /\ [][NextCausal]_vars

\* the two price series have the same rows up to position p
AgreeUpTo(p) ==
  /\ p <= Len(data.values) /\ p <= Len(other.values)
  /\ \A j \in 1..p : data.values[j] = other.values[j] /\ data.index[j] = other.index[j]

\* C3: when two price series agree on rows 0..i, every column of
\* create_features and the label of define_target have the same value at
\* row i in both runs.
C3_Causality ==
  pc = "labelled2" =>
    \A p \in 1..Len(data.values) :
      AgreeUpTo(p) =>
        /\ \A c \in DOMAIN features.cols : features.cols[c][p] = features2.cols[c][p]
        /\ (target.ret = "Series" /\ target2.ret = "Series"
              => target.values[p] = target2.values[p])
        /\ (target.ret = "Series") = (target2.ret = "Series")

\* two runs that part after a row where every indicator but RSI has left its
\* warm-up, both labelled
C3_Witness ==
  /\ pc = "labelled2"
  /\ target.ret = "Series" /\ target2.ret = "Series"
  /\ \E p \in 1..(Len(data.values) - 1) :
       /\ AgreeUpTo(p)
       /\ Len(other.values) > p
       /\ data.values[p + 1] # other.values[p + 1]
       /\ IsNum(features.cols["MACD_signal"][p])
       /\ IsNum(features.cols["SMA_20"][p])
       /\ features.cols["SMA_20"][p + 1] # features2.cols["SMA_20"][p + 1]

----------------------------------------------------------------------------
\* define_target of draft 3 on feature tables the caller built by hand.

\* Most rows of a hand-built feature table.
MaxTableRows == 3

\* RSI values on both sides of the two thresholds, on them, and missing
RsiLevels ==
  {NaN, Num(20 * Scale), Num(30 * Scale), Num(70 * Scale), Num(80 * Scale)}

\* the feature tables of n rows with the two columns the rule reads
HandTables(idx) ==
  {[index |-> idx, cols |-> [EMA_crossover |-> cross, RSI_14 |-> rsi]] :
     cross \in [1..Len(idx) -> BOOLEAN], rsi \in [1..Len(idx) -> RsiLevels]}

InitLabel ==
  /\ draft = 3
  /\ pc = "featured"
  /\ \E kind \in {"int", "date"}, n \in 0..MaxTableRows :
       /\ data = PriceSeries(kind, GenPrices(<<1>>, n))
       /\ features \in HandTables(data.index)
  /\ passed = data
  /\ window = 0 /\ out = <<>>
  /\ target = NoReturn /\ exc = "none"
  /\ other = Unused /\ features2 = Unused /\ target2 = Unused
  /\ split = Unused /\ clf = Unused /\ y_pred = Unused
  /\ auc = Unused /\ printed = <<>>

NextLabel == DefineTarget

SpecLabel == InitLabel /\ [][NextLabel]_vars

----------------------------------------------------------------------------
\* Model fitting and evaluation: build_model (the second and third drafts
\* have the same text) and the first draft's split, logistic_regression and
\* evaluate.  What the optimiser learns is not modelled: a fitted model
\* predicts any of the classes it saw; an AUC that is computed is "number".
\* The first draft's calls are taken from trading_decision on: the script's
\* own line 103 raises before them (DropSignal below).

\* Most rows of a table handed to build_model or to the first draft's split.
MaxModelRows == 11

\* rows of a feature table, named by the label draft 3's rule gives them
BuyRow == [cross |-> TRUE, rsi |-> Num(20 * Scale)]
SellRow == [cross |-> FALSE, rsi |-> Num(80 * Scale)]
HoldRow == [cross |-> TRUE, rsi |-> Num(50 * Scale)]
WarmupRow == [cross |-> FALSE, rsi |-> NaN]

RowPatterns ==
  {<<HoldRow>>, <<BuyRow, SellRow>>, <<BuyRow, SellRow, HoldRow>>,
   <<WarmupRow, BuyRow, SellRow, HoldRow>>}

\* a feature table whose rows repeat a pattern
PatternTable(idx, pat) ==
  LET row(i) == pat[((i - 1) % Len(pat)) + 1]
  IN [index |-> idx,
      cols |-> [EMA_crossover |-> [i \in 1..Len(idx) |-> row(i).cross],
                RSI_14 |-> [i \in 1..Len(idx) |-> row(i).rsi]]]

\* the columns of a feature table that hold numbers
NumericColumns(f) == DOMAIN f.cols \ {"EMA_crossover", "Signal"}

\* row p of the table has a missing value; sklearn's input validation
\* rejects a table that has one
HasNaN(f, p) == \E c \in NumericColumns(f) : f.cols[c][p].k = "nan"

\* the order in which sklearn and get_dummies sort the labels
ClassOrder == <<"Buy", "Hold", "Sell">>
Classes(S) == SelectSeq(ClassOrder, LAMBDA c : c \in S)

\* the labels of the rows S
LabelsAt(S) == {target.values[p] : p \in S}

\* accuracy_score on the rows S
accuracy_score(yt, yp, S) ==
  (Cardinality({p \in S : yt[p] = yp[p]}) * Scale) \div Cardinality(S)

\* the F1 score of one class, 0 when the class is neither present nor predicted
F1Class(yt, yp, S, c) ==
  LET tp == Cardinality({p \in S : yt[p] = c /\ yp[p] = c})
      fp == Cardinality({p \in S : yt[p] # c /\ yp[p] = c})
      fn == Cardinality({p \in S : yt[p] = c /\ yp[p] # c})
  IN IF 2 * tp + fp + fn = 0 THEN 0
     ELSE (2 * tp * Scale) \div (2 * tp + fp + fn)

\* f1_score(average="weighted"): the classes weighted by their support
f1_score(yt, yp, S) ==
  LET support(c) == Cardinality({p \in S : yt[p] = c})
  IN (support("Buy") * F1Class(yt, yp, S, "Buy")
      + support("Hold") * F1Class(yt, yp, S, "Hold")
      + support("Sell") * F1Class(yt, yp, S, "Sell")) \div Cardinality(S)

NoAuc == [truth |-> <<>>, scores |-> <<>>, result |-> "not called"]
NoSplit == [train |-> {}, test |-> {}]

\* what roc_auc_score does with a truth of one class in the binary case:
\* scikit-learn before 1.6 raises, from 1.6 on it warns and returns nan
OneClassOutcomes == {"raise", "nan"}

\* Rows of a first-draft frame long enough for SMA_20 to leave its warm-up
\* inside the test partition.
LongRows == SMA_WINDOW + 5

InitModel ==
  /\ draft \in {1, 2, 3}
  /\ pc = "featured"
  /\ \E kind \in {"int", "date"} :
       \/ /\ draft = 3
          /\ \E pat \in Patterns, n \in 0..MaxModelRows :
               /\ data = PriceSeries(kind, GenPrices(pat, n))
               /\ features = create_features(data)
       \/ /\ draft = 3
          /\ \E rows \in RowPatterns, n \in 0..MaxModelRows :
               /\ data = PriceSeries(kind, GenPrices(<<1>>, n))
               /\ features = PatternTable(data.index, rows)
       \/ /\ draft = 2
          /\ \E pat \in Patterns, n \in 0..MaxModelRows :
               /\ data = PriceSeries(kind, GenPrices(pat, n))
               /\ features = create_features_2(data)
       \/ /\ draft = 1
          /\ \E pat \in Patterns, n \in (0..MaxModelRows) \cup {LongRows} :
               /\ features = create_features_1(PriceFrame(kind, GenPrices(pat, n)))
               /\ data = features
  /\ passed = data
  /\ window = 0 /\ out = <<>>
  /\ target = NoReturn /\ exc = "none"
  /\ other = Unused /\ features2 = Unused /\ target2 = Unused
  /\ split = NoSplit /\ clf = <<>> /\ y_pred = <<>>
  /\ auc = NoAuc /\ printed = <<>>

ModelFrame ==
  UNCHANGED <<draft, data, passed, window, out, features, target, other,
              features2, target2>>

\* build_model: train_test_split(features, target, test_size=0.2) takes
\* ceil(0.2 n) rows, any of them, for the test set and raises when none is
\* left for the train set
TrainTestSplit ==
  /\ pc = "labelled" /\ draft \in {2, 3} /\ exc = "none"
  /\ LET n == Len(features.index)
         n_test == (n + 4) \div 5
     IN IF n - n_test = 0
        THEN split' = split /\ exc' = "train_test_split" /\ pc' = "raised"
        ELSE /\ \E test \in SUBSET (1..n) :
                  /\ Cardinality(test) = n_test
                  /\ split' = [train |-> (1..n) \ test, test |-> test]
             /\ exc' = exc /\ pc' = "split"
  /\ UNCHANGED <<clf, y_pred, auc, printed>>
  /\ ModelFrame

\* build_model: model.fit(X_train, y_train) raises on a missing value in
\* X_train and on fewer than two classes in y_train
Fit ==
  /\ pc = "split" /\ draft \in {2, 3}
  /\ IF \/ \E p \in split.train : HasNaN(features, p)
        \/ Cardinality(LabelsAt(split.train)) < 2
     THEN clf' = clf /\ exc' = "model.fit" /\ pc' = "raised"
     ELSE clf' = Classes(LabelsAt(split.train)) /\ exc' = exc /\ pc' = "fitted"
  /\ UNCHANGED <<split, y_pred, auc, printed>>
  /\ ModelFrame

\* build_model: y_pred = model.predict(X_test)
Predict ==
  /\ pc = "fitted" /\ draft \in {2, 3}
  /\ IF \E p \in split.test : HasNaN(features, p)
     THEN y_pred' = y_pred /\ exc' = "model.predict" /\ pc' = "raised"
     ELSE /\ \E yp \in [split.test -> {clf[i] : i \in 1..Len(clf)}] : y_pred' = yp
          /\ exc' = exc /\ pc' = "predicted"
  /\ UNCHANGED <<split, clf, auc, printed>>
  /\ ModelFrame

\* build_model: the three scores, then the three prints.  roc_auc_score gets
\* y_test and column 1 of predict_proba; with three classes in y_test it
\* raises, because multi_class is left at "raise".
Metrics ==
  /\ pc = "predicted" /\ draft \in {2, 3}
  /\ LET S == split.test
         truth == Classes(LabelsAt(S))
         accuracy == accuracy_score(target.values, y_pred, S)
         f1 == f1_score(target.values, y_pred, S)
     IN \E res \in (IF Len(truth) > 2 THEN {"raise"}
                    ELSE IF Len(truth) = 2 THEN {"number"}
                    ELSE OneClassOutcomes) :
          /\ auc' = [truth |-> truth, scores |-> <<clf[2]>>, result |-> res]
          /\ IF res = "raise"
             THEN printed' = printed /\ exc' = "roc_auc_score" /\ pc' = "raised"
             ELSE /\ printed' = <<<<"Accuracy: ", accuracy>>, <<"F1-score: ", f1>>,
                                  <<"AUC-ROC Score: ", res>>>>
                  /\ exc' = exc /\ pc' = "done"
  /\ UNCHANGED <<split, clf, y_pred>>
  /\ ModelFrame

\* draft 1, lines 106-114: the first int(0.8 n) rows train, the rest test;
\* StandardScaler.fit_transform raises on a train partition of no rows
SplitAndScale ==
  /\ pc = "labelled" /\ draft = 1
  /\ LET n == Len(features.index)
         train_size == (8 * n) \div 10
     IN /\ split' = [train |-> 1..train_size, test |-> (train_size + 1)..n]
        /\ IF train_size = 0
           THEN exc' = "scaler.fit_transform" /\ pc' = "raised"
           ELSE exc' = exc /\ pc' = "split"
  /\ UNCHANGED <<clf, y_pred, auc, printed>>
  /\ ModelFrame

\* draft 1: np.random.choice(['Buy', 'Sell', 'Hold'], size=len(X_test))
logistic_regression ==
  /\ pc = "split" /\ draft = 1
  /\ \E yp \in [split.test -> {"Buy", "Sell", "Hold"}] : y_pred' = yp
  /\ pc' = "predicted"
  /\ UNCHANGED <<split, clf, auc, printed, exc>>
  /\ ModelFrame

\* draft 1: evaluate(y_test, predictions) and the print of what it returns.
\* roc_auc_score gets the one-hot columns of the labels present in y_true and
\* of the labels present in y_pred, and pairs them by position.
evaluate ==
  /\ pc = "predicted" /\ draft = 1
  /\ LET S == split.test
         truth == Classes(LabelsAt(S))
         scores == Classes({y_pred[p] : p \in S})
         f1 == f1_score(target.values, y_pred, S)
         accuracy == accuracy_score(target.values, y_pred, S)
     IN \E res \in (IF Len(truth) = 1
                    THEN (IF Len(scores) > 2 THEN {"raise"} ELSE OneClassOutcomes)
                    ELSE IF Len(truth) = Len(scores) THEN {"number"}
                    ELSE {"raise"}) :
          /\ auc' = [truth |-> truth, scores |-> scores, result |-> res]
          /\ IF res = "raise"
             THEN printed' = printed /\ exc' = "roc_auc_score" /\ pc' = "raised"
             ELSE /\ printed' = <<<<"F1 Score", f1>>, <<"Accuracy", accuracy>>,
                                  <<"AUC-ROC Score", res>>>>
                  /\ exc' = exc /\ pc' = "done"
  /\ UNCHANGED <<split, clf, y_pred>>
  /\ ModelFrame

NextModel ==
  \/ DefineTarget \/ TradingDecision
  \/ TrainTestSplit \/ Fit \/ Predict \/ Metrics
  \/ SplitAndScale \/ logistic_regression \/ evaluate

SpecModel == InitModel /\ [][NextModel]_vars

\* the train partition has been handed to the fitting call
FitCalled ==
  \/ draft \in {2, 3} /\ (pc \in {"fitted", "predicted", "done"} \/ exc = "model.fit")
  \/ draft = 1 /\ pc \in {"predicted", "done"}

\* an indicator that the label of row p is computed from is undefined
UndefinedLabelInput(p) ==
  \E c \in {"SMA_20", "EMA_12", "RSI_14"} \cap DOMAIN features.cols :
    features.cols[c][p].k = "nan"

\* C7: every row handed to model fitting (the train partition of build_model,
\* X_train of the first draft) has all of its indicator values defined, and
\* no row whose indicator is undefined is labelled Buy or Sell.
C7_WarmupExcluded ==
  /\ FitCalled => \A p \in split.train : ~HasNaN(features, p)
  /\ pc \notin {"start", "featured"} /\ target.ret = "Series" =>
       \A p \in 1..Len(target.values) :
         UndefinedLabelInput(p) => target.values[p] \notin {"Buy", "Sell"}

\* C9: when the labels range over the three classes, the AUC-ROC call gets one
\* score column per class, and the truth and the scores have the same class
\* columns in the same order.
C9_ScorePerClass ==
  auc.result # "not called" /\ Cardinality(LabelsAt(1..Len(target.values))) = 3 =>
    /\ Len(auc.scores) = 3
    /\ auc.truth = auc.scores

\* C10: once the scores are computed the evaluation completes: nothing is
\* raised, accuracy and weighted F1 are reported, and the AUC-ROC of a test
\* set of one class is reported as nan.
C10_EvaluationCompletes ==
  auc.result # "not called" =>
    /\ exc = "none"
    /\ Len(printed) = 3
    /\ Len(auc.truth) = 1 => auc.result = "nan"

----------------------------------------------------------------------------
\* The runs: main() of the third draft and the script of the first draft,
\* from the price fetch on.  yf.download reports a ticker it cannot fetch on
\* the console and returns a frame of no rows.

\* Rows that period="1d" asks for.
DayRows == 1

\* what the fetch can return: a date-indexed price object, of no rows when
\* the fetch failed or the range is empty
Fetched(d) ==
  IF d = 3
  THEN {PriceObject(d, "date", prices) :
          prices \in {<<>>} \cup {<<x>> : x \in PriceLevels}}
  ELSE {PriceObject(d, "date", GenPrices(pat, n)) :
          pat \in Patterns, n \in 0..MaxLen}

Init ==
  /\ draft \in {1, 3}
  /\ pc = "main"
  /\ data = Unused /\ passed = Unused
  /\ window = 0 /\ out = <<>>
  /\ features = Unused /\ target = NoReturn /\ exc = "none"
  /\ other = Unused /\ features2 = Unused /\ target2 = Unused
  /\ split = NoSplit /\ clf = <<>> /\ y_pred = <<>>
  /\ auc = NoAuc /\ printed = <<>>

\* data = download_data(ticker) / data = extract_data(company, ...)
Download ==
  /\ pc = "main"
  /\ data' \in Fetched(draft)
  /\ passed' = data'
  /\ pc' = "start"
  /\ UNCHANGED <<features, target, exc>>
  /\ FeatFrame

\* draft 1, line 103: features.drop(['Signal'], axis=1) runs before
\* trading_decision has added the Signal column, and raises KeyError
DropSignal ==
  /\ pc = "featured" /\ draft = 1
  /\ IF "Signal" \in DOMAIN features.cols
     THEN exc' = exc /\ pc' = "dropped"
     ELSE exc' = "features.drop" /\ pc' = "raised"
  /\ UNCHANGED <<data, passed, features, target>>
  /\ FeatFrame

Next == Download \/ CreateFeatures \/ DropSignal \/ DefineTarget \/ TrainTestSplit

Spec == Init /\ [][Next]_vars

\* a stage after the fetch has run
LaterStageRan == pc \in {"featured", "labelled", "split", "raised", "done", "dropped"}

\* C8: after a fetch that failed or returned no rows, no later stage runs on
\* the empty price series, and the run ends in a fetch error.
C8_FetchErrorSurfaces ==
  pc # "main" /\ Len(data.index) = 0 =>
    /\ ~LaterStageRan
    /\ exc \in {"none", "fetch"}

----------------------------------------------------------------------------
\* The stages of one invocation of main().  After build_model has returned,
\* line 371 (indented into the body of main) calls main() again; in Spec
\* build_model returns in no run, so the call is never made.

\* the invocation is over: a call raised, or build_model returned
Ended == exc # "none" \/ pc = "done"

FetchEntered == pc # "main"
FeaturesEntered == pc \notin {"main", "start"}
LabellingEntered == pc \notin {"main", "start", "featured"}
ModelEntered ==
  \/ pc \in {"split", "fitted", "predicted", "done"}
  \/ exc \in {"train_test_split", "model.fit", "model.predict", "roc_auc_score"}

\* build_model does not return to main
BuildModelNeverReturns == draft = 3 => pc # "done"

\* C11: an invocation of main() that is over has entered the fetch, feature
\* assembly, labelling and model fit/evaluation, in that order, and has
\* ended without an error.
C11_SinglePass ==
  draft = 3 /\ Ended =>
    /\ FetchEntered /\ FeaturesEntered /\ LabellingEntered /\ ModelEntered
    /\ exc = "none"

----------------------------------------------------------------------------
\* RSI_14 of the third draft, checked on the runs of SpecFeat.

\* the dates with a positive change and the dates with a negative change
UpDates(d) ==
  {Diff(d).index[i] : i \in {j \in 1..Len(d.values) : GtVal(Diff(d).values[j], Num(0))}}
DownDates(d) ==
  {Diff(d).index[i] : i \in {j \in 1..Len(d.values) : LtVal(Diff(d).values[j], Num(0))}}

\* every value of the series is missing
AllNaN(values) == \A i \in 1..Len(values) : values[i] = NaN

====
